---------------------------- MODULE Spec2Model ----------------------------
(***************************************************************************)
(* Model of daily-seconds-kline (src/daily-seconds-kline/src/main.rs):     *)
(* the loop of main() that walks a time range in ten-minute windows,       *)
(* filters each page to the UTC day of the cursor, and writes one file per *)
(* day.                                                                    *)
(*                                                                         *)
(* Time values are milliseconds counted from 2024-06-01T00:00:00Z, the     *)
(* start_time_ms of main.rs:31 (day BaseDay since 1970-01-01), so that the *)
(* i64 millisecond arithmetic of the program stays inside TLC's integers.  *)
(***************************************************************************)
EXTENDS Integers, Sequences, FiniteSets, TLC

\* ------------------------------------------------------------------------
\* Program constants
\* ------------------------------------------------------------------------
\* the "+ 1000" of the cursor updates and the interval=1s of the request
Granularity == 1000
\* the span of one requested window, 10 * 60_000 ms
PageSpan == 10 * 60000
\* limit=1000 of the request
Limit == 1000
\* one chrono day (Days::new(1)) in milliseconds
DayMs == 86400000
\* days from 1970-01-01 to 2024-06-01, the date of start_time_ms
BaseDay == 19875
\* max_end_time_ms of the program: 2024-06-01T00:19:59Z
RefEnd == 1199000

\* ------------------------------------------------------------------------
\* Bounds of the model
\* ------------------------------------------------------------------------
\* the source holds data in whole stretches of BlockMs milliseconds
BlockMs == 300000
\* longest overall range explored
MaxRange == 2400000

\* overall ranges explored: the program's own and ranges around the first
\* UTC midnight after it
StartTimes == {0, DayMs - 2 * PageSpan, DayMs - 900000, DayMs - 450500}
EndTimes == {RefEnd, DayMs - Granularity, DayMs + PageSpan - Granularity,
             DayMs + 2 * PageSpan - Granularity}
SrcModes == {"ok", "reversed", "outside"}

VARIABLES
    pc,               \* "loop", "fetched" (page decoded), "done", "error"
    start_time_ms,    \* the cursor
    max_end_time_ms,  \* end of the overall range
    overall_start_ms, \* the initial cursor
    cache_tick,       \* the accumulator
    written,          \* the calls of write_file, in order
    requests,         \* the windows requested, in order
    resp,             \* the page of the iteration under way
    blocks,           \* the stretches for which the remote source holds bars
    srcMode           \* how the remote source answers

vars == <<pc, start_time_ms, max_end_time_ms, overall_start_ms, cache_tick,
          written, requests, resp, blocks, srcMode>>

\* ------------------------------------------------------------------------
\* Helpers
\* ------------------------------------------------------------------------
Min(a, b) == IF a < b THEN a ELSE b

Take(s, n) == IF Len(s) <= n THEN s ELSE SubSeq(s, 1, n)

\* KlineRow: the two time fields; the price and volume strings take no part
\* in the control flow
KlineRow(t) == [open_time |-> t, close_time |-> t + Granularity - 1]

\* ------------------------------------------------------------------------
\* The remote source
\* ------------------------------------------------------------------------
\* the source holds one bar per Granularity step inside each block it has
Holds(t) == (t \div BlockMs) \in blocks

\* the first bar-open time at or after s, and the number of them up to e
GridFirst(s) == ((s + Granularity - 1) \div Granularity) * Granularity
GridCount(s, e) ==
    IF e < GridFirst(s) THEN 0 ELSE (e - GridFirst(s)) \div Granularity + 1

\* the bars of the grid inside [s, e], ascending
GridRows(s, e) ==
    [i \in 1..GridCount(s, e) |->
        KlineRow(GridFirst(s) + (i - 1) * Granularity)]

\* the same bars, newest first
GridRowsDesc(s, e) ==
    [i \in 1..GridCount(s, e) |->
        KlineRow(GridFirst(s) + (GridCount(s, e) - i) * Granularity)]

\* the answer of a source that sends its bars in descending order
Descending(s, e) ==
    Take(SelectSeq(GridRowsDesc(s, e), LAMBDA r : Holds(r.open_time)), Limit)

\* the answer a source obeying its contract gives for startTime=s, endTime=e
Honest(s, e) ==
    Take(SelectSeq(GridRows(s, e), LAMBDA r : Holds(r.open_time)), Limit)

\* the body of the response to the request of one iteration
Fetch(s, e) ==
    CASE srcMode = "ok" -> Honest(s, e)
      [] srcMode = "reversed" -> Descending(s, e)
      [] srcMode = "outside" -> Honest(s, e + Granularity)

\* ------------------------------------------------------------------------
\* The steps of one loop iteration
\* ------------------------------------------------------------------------
\* end_time_ms, main.rs:52
EndTime(s) == Min(s + PageSpan - 1, max_end_time_ms)

\* next_day_ms, main.rs:63-70
NextDayMs(s) == ((s \div DayMs) + 1) * DayMs

\* year(), month(), day() of start_time, main.rs:84-86
DayKey(s) ==
    LET z == BaseDay + (s \div DayMs) + 719468
        era == z \div 146097
        doe == z - era * 146097
        yoe == (doe - doe \div 1460 + doe \div 36524 - doe \div 146096) \div 365
        doy == doe - (365 * yoe + yoe \div 4 - yoe \div 100)
        mp == (5 * doy + 2) \div 153
        d == doy - (153 * mp + 2) \div 5 + 1
        m == IF mp < 10 THEN mp + 3 ELSE mp - 9
        y == yoe + era * 400 + (IF m <= 2 THEN 1 ELSE 0)
    IN [year |-> y, month |-> m, day |-> d]

\* the filter with <= in place of <: the bar that opens at midnight stays
KeepRowInclusive(r, ndm) == r.open_time <= ndm

\* the closure |r| r.open_time < next_day_ms, main.rs:74
KeepRow(r, ndm) == r.open_time < ndm

\* resp.into_iter().filter(..).collect(), main.rs:72-75
FilterPage(page, ndm) == SelectSeq(page, LAMBDA r : KeepRow(r, ndm))

\* the page put in front of the accumulator instead of behind it
ExtendFront(cache, rows) == rows \o cache

\* cache_tick.extend_from_slice(&resp), main.rs:76
Extend(cache, rows) == cache \o rows

\* last.close_time + 1 >= next_day_ms, main.rs:95
Crosses(last, ndm) == last.close_time + 1 >= ndm

\* the cursor left on the last row instead of after it
CursorOnRow(last) == last.open_time

\* start_time_ms = last.open_time + 1000, main.rs:103 and 108
CursorAfterRow(last) == last.open_time + 1000

\* start_time_ms = end_time_ms + 1000, main.rs:91
CursorAfterEmpty(end) == end + 1000

\* the cursor set on the last millisecond of the day instead of on midnight
CursorOnDayEnd(ndm) == ndm - 1

\* the cursor set one bar after midnight instead of on it
CursorPastDay(ndm) == ndm + 1000

\* start_time_ms = next_day_ms, main.rs:88
CursorAfterDay(ndm) == ndm

\* one call of write_file that succeeds
WriteFile(data, key) == Append(written, [key |-> key, data |-> data])

\* end_time_ms >= max_end_time_ms, main.rs:112
AtEnd(end) == end >= max_end_time_ms

\* the exit taken without the last write
FinishNoWrite(end, cache, w, key) ==
    /\ pc' = (IF AtEnd(end) THEN "done" ELSE "loop")
    /\ written' = w

\* main.rs:112-123: the last write and the exit, or the next turn
Finish(end, cache, w, key) ==
    IF AtEnd(end)
    THEN /\ pc' = "done"
         /\ written' = (IF cache # <<>>
                        THEN Append(w, [key |-> key, data |-> cache])
                        ELSE w)
    ELSE /\ pc' = "loop"
         /\ written' = w

\* the window of the request whose response is being processed
ThisEnd == requests[Len(requests)][2]
ThisNextDay == NextDayMs(start_time_ms)
ThisKey == DayKey(start_time_ms)

\* the response never arrives: the await of the request does not return
Pending == "pending"

\* .json::<Vec<KlineRow>>().await? has returned the page, main.rs:59-60
Decoded == "fetched"

\* main.rs:52-60: the request is sent and its response decoded
Request ==
    /\ pc = "loop"
    /\ requests' = Append(requests, <<start_time_ms, EndTime(start_time_ms)>>)
    /\ resp' = Fetch(start_time_ms, EndTime(start_time_ms))
    /\ pc' = Decoded
    /\ UNCHANGED <<start_time_ms, max_end_time_ms, overall_start_ms,
                   cache_tick, written, blocks, srcMode>>

\* the error of a failed call dropped and the loop entered again
ErrIgnored == "loop"

\* the ? after a failed call returns the Err from main, main.rs:58, 60, 87,
\* 102 and 120
ErrReturn == "error"

\* reqwest::get(..).await? or .json().await? returns the error, main.rs:57-60
FetchFail ==
    /\ pc = "loop"
    /\ requests' = Append(requests, <<start_time_ms, EndTime(start_time_ms)>>)
    /\ pc' = ErrReturn
    /\ UNCHANGED <<start_time_ms, max_end_time_ms, overall_start_ms,
                   cache_tick, written, resp, blocks, srcMode>>

\* main.rs:80-89: the page is empty and the window reaches the next day
IterNoneFlush ==
    /\ pc = "fetched"
    /\ resp = <<>>
    /\ ThisEnd >= ThisNextDay
    /\ start_time_ms' = CursorAfterDay(ThisNextDay)
    /\ cache_tick' = <<>>
    /\ Finish(ThisEnd, <<>>, WriteFile(cache_tick, ThisKey), ThisKey)
    /\ resp' = <<>>
    /\ UNCHANGED <<max_end_time_ms, overall_start_ms, requests, blocks,
                   srcMode>>

\* main.rs:90-92: the page is empty and the window ends before the next day
IterNoneSkip ==
    /\ pc = "fetched"
    /\ resp = <<>>
    /\ ThisEnd < ThisNextDay
    /\ start_time_ms' = CursorAfterEmpty(ThisEnd)
    /\ cache_tick' = cache_tick
    /\ Finish(ThisEnd, cache_tick, written, ThisKey)
    /\ resp' = <<>>
    /\ UNCHANGED <<max_end_time_ms, overall_start_ms, requests, blocks,
                   srcMode>>

\* main.rs:94-106: the last row reaches the end of the day: write, continue
IterCross ==
    /\ pc = "fetched"
    /\ resp # <<>>
    /\ Crosses(resp[Len(resp)], ThisNextDay)
    /\ written' = WriteFile(Extend(cache_tick, FilterPage(resp, ThisNextDay)),
                            ThisKey)
    /\ start_time_ms' = CursorAfterRow(resp[Len(resp)])
    /\ cache_tick' = <<>>
    /\ pc' = "loop"
    /\ resp' = <<>>
    /\ UNCHANGED <<max_end_time_ms, overall_start_ms, requests, blocks,
                   srcMode>>

\* main.rs:107-109: the page stays inside the day
IterWithin ==
    /\ pc = "fetched"
    /\ resp # <<>>
    /\ ~Crosses(resp[Len(resp)], ThisNextDay)
    /\ start_time_ms' = CursorAfterRow(resp[Len(resp)])
    /\ cache_tick' = Extend(cache_tick, FilterPage(resp, ThisNextDay))
    /\ Finish(ThisEnd, cache_tick', written, ThisKey)
    /\ resp' = <<>>
    /\ UNCHANGED <<max_end_time_ms, overall_start_ms, requests, blocks,
                   srcMode>>

\* write_file(..)? returns the error: the page is already in the accumulator
WriteFail ==
    LET cache == Extend(cache_tick, FilterPage(resp, ThisNextDay))
        midrun == IF resp = <<>> THEN ThisEnd >= ThisNextDay
                  ELSE Crosses(resp[Len(resp)], ThisNextDay)
        atexit == AtEnd(ThisEnd) /\ cache # <<>>
    IN /\ pc = "fetched"
       /\ midrun \/ atexit
       /\ cache_tick' = cache
       /\ start_time_ms' = (IF midrun THEN start_time_ms
                            ELSE IF resp = <<>> THEN CursorAfterEmpty(ThisEnd)
                            ELSE CursorAfterRow(resp[Len(resp)]))
       /\ pc' = ErrReturn
       /\ resp' = <<>>
       /\ UNCHANGED <<max_end_time_ms, overall_start_ms, written, requests,
                      blocks, srcMode>>

Iterate == IterNoneFlush \/ IterNoneSkip \/ IterCross \/ IterWithin

\* a source that answers newest first moves the cursor one bar per request
\* (main.rs:108 after the oldest row of the page), so its runs take one
\* request per bar of the first window: it is explored where it holds none
ShortReversed == \A b \in blocks : b * BlockMs >= overall_start_ms + PageSpan

\* the runs explored: the range of the program and ranges around midnight;
\* a source that breaks its contract is explored on the range of the program
Init ==
    /\ pc = "loop"
    /\ overall_start_ms \in StartTimes
    /\ max_end_time_ms \in EndTimes
    /\ overall_start_ms <= max_end_time_ms
    /\ max_end_time_ms - overall_start_ms <= MaxRange
    /\ start_time_ms = overall_start_ms
    /\ cache_tick = <<>>
    /\ written = <<>>
    /\ requests = <<>>
    /\ resp = <<>>
    /\ blocks \in SUBSET ((overall_start_ms \div BlockMs)..
                           (max_end_time_ms \div BlockMs))
    /\ srcMode \in (IF overall_start_ms = 0 THEN SrcModes ELSE {"ok"})
    /\ srcMode = "reversed" => ShortReversed

Next ==
    \/ Request
    \/ FetchFail
    \/ IterNoneFlush
    \/ IterNoneSkip
    \/ IterCross
    \/ IterWithin
    \/ WriteFail

Spec == Init /\ [][Next]_vars

\* the loop is scheduled until it returns and a request is answered; a
\* failure is never forced
LiveSpec == Spec /\ WF_vars(Request) /\ WF_vars(Iterate)

\* ------------------------------------------------------------------------
\* Vocabulary of the properties
\* ------------------------------------------------------------------------
OpenTimes(rows) == {rows[i].open_time : i \in DOMAIN rows}

FlushedTimes == UNION {OpenTimes(written[i].data) : i \in DOMAIN written}

RECURSIVE FlushedCount(_)
FlushedCount(n) == IF n = 0 THEN 0
                   ELSE Len(written[n].data) + FlushedCount(n - 1)

\* the bar-open times the source holds in the overall range
SourceTimes ==
    {t \in OpenTimes(GridRows(overall_start_ms, max_end_time_ms)) : Holds(t)}

Ascending(rows) ==
    \A i \in 1..(Len(rows) - 1) : rows[i].open_time < rows[i + 1].open_time

\* a page that breaks the contract of the source for the window [s, e]
Violates(page, s, e) ==
    \/ ~Ascending(page)
    \/ \E i \in DOMAIN page : page[i].open_time < s \/ page[i].open_time > e

\* the page of this iteration was processed and no error returned
Iterated == pc = "fetched" /\ pc' # "fetched" /\ pc' # "error"

\* the window and the page of the latest request
LastStart == requests[Len(requests)][1]
LastEnd == requests[Len(requests)][2]
LastPage == Fetch(LastStart, LastEnd)

\* ------------------------------------------------------------------------
\* C1 (completeness): when a run over [S, E] with a source obeying its
\* contract has terminated, the open_time values of the flushed batches are
\* exactly the open_time values the source holds in [S, E].
\* ------------------------------------------------------------------------
C1_Completeness ==
    (pc = "done" /\ srcMode = "ok") => FlushedTimes = SourceTimes

\* ------------------------------------------------------------------------
\* C2 (no duplicates): with a source obeying its contract no open_time
\* appears twice across the flushed batches, inside one batch or in two.
\* ------------------------------------------------------------------------
C2_NoDuplicates ==
    srcMode = "ok" => Cardinality(FlushedTimes) = FlushedCount(Len(written))

C2_Witness ==
    /\ srcMode = "ok"
    /\ pc = "done"
    /\ Len(requests) >= 3
    /\ Len(written) = 2
    /\ Len(written[1].data) > 600
    /\ Len(written[2].data) > 0

\* ------------------------------------------------------------------------
\* C3 (day partition): in every call of the writer all rows of the batch
\* lie in one UTC day, the day of the key passed to the call.
\* ------------------------------------------------------------------------
C3_DayPartition ==
    srcMode = "ok" =>
        \A i \in DOMAIN written :
            \A j \in DOMAIN written[i].data :
                DayKey(written[i].data[j].open_time) = written[i].key

\* ------------------------------------------------------------------------
\* C4 (ordering): with a source obeying its contract every batch passed to
\* the writer is in strictly ascending open_time order.
\* ------------------------------------------------------------------------
C4_Ordering ==
    srcMode = "ok" => \A i \in DOMAIN written : Ascending(written[i].data)

C4_Witness ==
    /\ srcMode = "ok"
    /\ \E i \in DOMAIN written : Len(written[i].data) > 900
    /\ Len(requests) >= 3

\* ------------------------------------------------------------------------
\* C5 (termination): with a source that obeys its contract and does not
\* fail, the loop runs finitely many iterations and the run terminates.
\* ------------------------------------------------------------------------
C5_Termination == (srcMode = "ok") => <>(pc \in {"done", "error"})

C5_Witness ==
    /\ srcMode = "ok"
    /\ pc = "done"
    /\ Len(requests) >= 5

\* ------------------------------------------------------------------------
\* C6 (empty window before the day boundary): an iteration whose window
\* returns no rows and ends before next_day_ms writes nothing, leaves the
\* accumulator unchanged and sets the cursor to window_end + 1.
\* ------------------------------------------------------------------------
C6_EmptyBeforeBoundary ==
    [][(Iterated /\ srcMode = "ok" /\ resp = <<>> /\ ThisEnd < ThisNextDay)
       => /\ written' = written
          /\ cache_tick' = cache_tick
          /\ start_time_ms' = ThisEnd + 1]_vars

\* ------------------------------------------------------------------------
\* C7 (empty window reaching the day boundary): an iteration whose window
\* returns no rows and ends at or after next_day_ms writes the accumulator
\* (possibly empty) under the day key of the cursor, sets the cursor to
\* next_day_ms and leaves the accumulator empty.
\* ------------------------------------------------------------------------
C7_EmptyAtBoundary ==
    [][(Iterated /\ resp = <<>> /\ ThisEnd >= ThisNextDay)
       => /\ written' = Append(written, [key |-> DayKey(start_time_ms),
                                         data |-> cache_tick])
          /\ start_time_ms' = ThisNextDay
          /\ cache_tick' = <<>>]_vars

C7_Witness ==
    /\ pc # "error"
    /\ requests # <<>>
    /\ LastPage = <<>>
    /\ LastEnd >= NextDayMs(LastStart)
    /\ start_time_ms = NextDayMs(LastStart)
    /\ written # <<>>
    /\ written[Len(written)].data # <<>>
    /\ cache_tick = <<>>

\* ------------------------------------------------------------------------
\* C8 (midnight crossing): an iteration whose page is not empty and whose
\* last unfiltered row has close_time + 1 >= next_day_ms writes, under the
\* day key of the cursor, a batch without any row of open_time >=
\* next_day_ms, sets the cursor to that row's open_time + granularity and
\* leaves the accumulator empty.
\* ------------------------------------------------------------------------
C8_MidnightCrossing ==
    [][(/\ Iterated
        /\ resp # <<>>
        /\ resp[Len(resp)].close_time + 1 >= ThisNextDay)
       => /\ Len(written') = Len(written) + 1
          /\ SubSeq(written', 1, Len(written)) = written
          /\ written'[Len(written')].key = DayKey(start_time_ms)
          /\ \A t \in OpenTimes(written'[Len(written')].data) :
                 t < ThisNextDay
          /\ start_time_ms' = resp[Len(resp)].open_time + Granularity
          /\ cache_tick' = <<>>]_vars

\* the page of the latest request straddled midnight and was cut by the filter
C8_Witness ==
    /\ pc # "error"
    /\ srcMode = "ok"
    /\ requests # <<>>
    /\ LastPage # <<>>
    /\ LastPage[Len(LastPage)].open_time >= NextDayMs(LastStart)
    /\ start_time_ms = LastPage[Len(LastPage)].open_time + Granularity
    /\ written # <<>>
    /\ written[Len(written)].data # <<>>
    /\ cache_tick = <<>>

\* ------------------------------------------------------------------------
\* C9 (single-day run): for a range inside one UTC day that starts on a bar
\* boundary, with a source holding every bar of the range, the run issues
\* exactly ceil((E - S + 1) / page_span_ms) requests, writes nothing before
\* its last iteration and writes exactly once, every bar of the range.
\* ------------------------------------------------------------------------
SingleDayFull ==
    /\ srcMode = "ok"
    /\ overall_start_ms % Granularity = 0
    /\ NextDayMs(overall_start_ms) > max_end_time_ms
    /\ \A b \in (overall_start_ms \div BlockMs)..(max_end_time_ms \div BlockMs) :
           b \in blocks

C9_SingleDay ==
    SingleDayFull =>
        /\ pc \in {"loop", "fetched"} => written = <<>>
        /\ pc = "done" =>
              /\ Len(requests) = (max_end_time_ms - overall_start_ms + PageSpan)
                                     \div PageSpan
              /\ Len(written) = 1
              /\ OpenTimes(written[1].data) = SourceTimes

\* ------------------------------------------------------------------------
\* C10 (contract-violating pages are rejected): when the page returned is
\* not in ascending open_time order or holds a row outside the requested
\* window, the run ends in an error and none of the page's rows reaches the
\* accumulator or a batch.
\* ------------------------------------------------------------------------
C10_Rejected ==
    [][(/\ pc = "fetched"
        /\ pc' # "fetched"
        /\ Violates(resp, start_time_ms, ThisEnd))
       => /\ pc' = "error"
          /\ cache_tick' = cache_tick
          /\ written' = written]_vars

\* ------------------------------------------------------------------------
\* C11 (failures abort immediately): when the request or a call of the
\* writer fails, the run ends in an error in that iteration; no request and
\* no write follows, and the steps after the failing call do not run: the
\* accumulator is not cleared and the cursor keeps the value it had at the
\* failing call.
\* ------------------------------------------------------------------------
\* the rows of the page that the day filter lets through
KeptRows == SelectSeq(resp, LAMBDA r : r.open_time < ThisNextDay)

\* the iteration under way reaches a write_file call before the loop exit
WritesMidRun ==
    IF resp = <<>> THEN ThisEnd >= ThisNextDay
    ELSE resp[Len(resp)].close_time + 1 >= ThisNextDay

\* the iteration under way reaches the write_file call of the loop exit
WritesAtExit ==
    /\ ~WritesMidRun
    /\ ThisEnd >= max_end_time_ms
    /\ cache_tick \o KeptRows # <<>>

\* the step is a request that returned no page
FetchFailed ==
    pc = "loop" /\ Len(requests') = Len(requests) + 1 /\ pc' # "fetched"

\* the step is an iteration whose write_file call wrote nothing
WriteFailed ==
    /\ pc = "fetched"
    /\ pc' # "fetched"
    /\ WritesMidRun \/ WritesAtExit
    /\ written' = written

C11_FailuresAbort ==
    [][/\ pc # "error"
       /\ FetchFailed =>
             /\ pc' = "error"
             /\ written' = written
             /\ start_time_ms' = start_time_ms
             /\ cache_tick' = cache_tick
       /\ WriteFailed =>
             /\ pc' = "error"
             /\ requests' = requests
             /\ cache_tick' = cache_tick \o KeptRows
             /\ WritesMidRun => start_time_ms' = start_time_ms]_vars

\* a call of the writer failed after an earlier batch was written
C11_Witness ==
    /\ pc = "error"
    /\ written # <<>>
    /\ cache_tick # <<>>
    /\ Len(requests) >= 2
    /\ start_time_ms = LastStart

\* ------------------------------------------------------------------------
\* C12 (filtered rows are fetched again): the cursor set after a page is
\* never greater than the open_time of a row the day filter removed from
\* that page, and every such row of [S, E] is, when the run has terminated,
\* in a batch written under the key of the following day, its own.
\* ------------------------------------------------------------------------
\* the open_times the day filter removed from the page of request i
FilteredOut(i) ==
    {t \in OpenTimes(Honest(requests[i][1], requests[i][2])) :
        t >= NextDayMs(requests[i][1])}

C12_Refetched ==
    srcMode = "ok" =>
        /\ (pc \in {"loop", "done"} /\ requests # <<>>) =>
              \A t \in FilteredOut(Len(requests)) : start_time_ms <= t
        /\ pc = "done" =>
              \A i \in DOMAIN requests : \A t \in FilteredOut(i) :
                  \E j \in DOMAIN written :
                      /\ written[j].key = DayKey(t)
                      /\ t \in OpenTimes(written[j].data)

\* ------------------------------------------------------------------------
\* C13 (accumulator invariant): between iterations every row of the
\* accumulator opens before the UTC midnight that ends the day of the
\* accumulator's first row: the accumulator never holds rows of two days.
\* ------------------------------------------------------------------------
C13_OneDayAccumulator ==
    (srcMode = "ok" /\ pc = "loop" /\ cache_tick # <<>>) =>
        \A i \in DOMAIN cache_tick :
            cache_tick[i].open_time < NextDayMs(cache_tick[1].open_time)

\* ------------------------------------------------------------------------
\* C14 (no day key is written twice): within one run write_file is never
\* called twice with the same (year, month, day).
\* ------------------------------------------------------------------------
C14_KeysOnce ==
    \A i, j \in DOMAIN written : i # j => written[i].key # written[j].key

\* two days were written, the first at its midnight, the second at the exit
C14_Witness ==
    /\ pc = "done"
    /\ Len(written) >= 2
    /\ written[1].key = [year |-> 2024, month |-> 6, day |-> 1]
    /\ written[2].key = [year |-> 2024, month |-> 6, day |-> 2]
    /\ written[2].data # <<>>

\* ------------------------------------------------------------------------
\* C15 (the final window ends the run): an iteration whose window end has
\* reached overall_end_ms is the last one, whichever branch it takes: the
\* run terminates and no request follows.
\* ------------------------------------------------------------------------
C15_FinalWindow ==
    [][(Iterated /\ ThisEnd >= max_end_time_ms) => pc' = "done"]_vars

\* ------------------------------------------------------------------------
\* C16 (well-formed windows): every request has
\* S <= window start <= window end <= E.
\* ------------------------------------------------------------------------
C16_WellFormed ==
    \A i \in DOMAIN requests :
        /\ overall_start_ms <= requests[i][1]
        /\ requests[i][1] <= requests[i][2]
        /\ requests[i][2] <= max_end_time_ms

\* ------------------------------------------------------------------------
\* C17 (forward progress): in every iteration, whichever branch it takes,
\* the cursor at the end is strictly greater than the cursor at the start.
\* ------------------------------------------------------------------------
C17_Progress ==
    [][(Iterated /\ srcMode = "ok") => start_time_ms' > start_time_ms]_vars

\* ------------------------------------------------------------------------
\* C18 (no accepted row is dropped): a row in the accumulator or in a
\* written batch stays in one of them; every row the filter lets through
\* is appended; the accumulator is cleared only in an iteration that has
\* just passed its whole content to the writer; at normal termination the
\* accumulator is empty or has just been written.
\* ------------------------------------------------------------------------
C18_NoDrop ==
    [][/\ (OpenTimes(cache_tick) \cup FlushedTimes)
              \subseteq (OpenTimes(cache_tick') \cup FlushedTimes')
       /\ (pc = "fetched" /\ pc' # "fetched") =>
              OpenTimes(KeptRows)
                  \subseteq (OpenTimes(cache_tick') \cup FlushedTimes')
       /\ (pc = "fetched" /\ cache_tick' = <<>>
              /\ cache_tick \o KeptRows # <<>>) =>
              /\ Len(written') = Len(written) + 1
              /\ written'[Len(written')].data = cache_tick \o KeptRows
       /\ pc' = "done" =>
              \/ cache_tick' = <<>>
              \/ /\ written' # <<>>
                 /\ written'[Len(written')].data = cache_tick']_vars

\* a run that wrote one day at its midnight and the next at the exit
C18_Witness ==
    /\ pc = "done"
    /\ srcMode = "ok"
    /\ Len(written) = 2
    /\ Len(written[1].data) > 600
    /\ cache_tick # <<>>
    /\ written[2].data = cache_tick

\* ------------------------------------------------------------------------
\* The loop as a function of the page span
\* ------------------------------------------------------------------------
\* a second page span, half of the program's
AltSpan == 5 * 60000

\* end_time_ms for a page span other than the program's, main.rs:52
EndTimeFor(span, s) == Min(s + span - 1, max_end_time_ms)

\* main.rs:112-123 as a value: the calls of write_file at the exit
ExitWrites(cache, w, key) ==
    IF cache # <<>> THEN Append(w, [key |-> key, data |-> cache]) ELSE w

\* main.rs:51-125 with no failing call: the calls of write_file of the run
\* that starts with cursor s, accumulator cache and calls w
RECURSIVE RunFrom(_, _, _, _)
RunFrom(span, s, cache, w) ==
    LET end == EndTimeFor(span, s)
        page == Fetch(s, end)
        ndm == NextDayMs(s)
        key == DayKey(s)
        acc == Extend(cache, FilterPage(page, ndm))
        last == page[Len(page)]
        batch == Append(w, [key |-> key, data |-> acc])
    IN IF page = <<>> /\ end >= ndm
       THEN IF AtEnd(end) THEN batch
            ELSE RunFrom(span, CursorAfterDay(ndm), <<>>, batch)
       ELSE IF page = <<>>
       THEN IF AtEnd(end) THEN ExitWrites(acc, w, key)
            ELSE RunFrom(span, CursorAfterEmpty(end), acc, w)
       ELSE IF Crosses(last, ndm)
       THEN RunFrom(span, CursorAfterRow(last), <<>>, batch)
       ELSE IF AtEnd(end) THEN ExitWrites(acc, w, key)
            ELSE RunFrom(span, CursorAfterRow(last), acc, w)

\* the calls of write_file of the whole run with the given page span
RunWith(span) == RunFrom(span, overall_start_ms, <<>>, <<>>)

\* the batches of a run: the day keys with the rows written under each
Batches(w) == {w[i] : i \in {j \in DOMAIN w : w[j].data # <<>>}}

\* the function agrees with the actions on the page span of the program
RunAgrees == (pc = "done" /\ srcMode = "ok") => RunWith(PageSpan) = written

\* ------------------------------------------------------------------------
\* C19 (independence of page fragmentation): for the same range and the
\* same source content, two runs that differ only in the page span write
\* the same batches: the same day keys with the same rows under each key.
\* ------------------------------------------------------------------------
C19_SpanIndependent ==
    (pc = "done" /\ srcMode = "ok") =>
        Batches(written) = Batches(RunWith(AltSpan))

=============================================================================
